---- MODULE Spec2Model ----
(***************************************************************************)
(* A model of the room302-template scaffolding wizard (src/unnamed/part_003*)
(* is the program, src/unnamed/part_001 its tests).  The program is one    *)
(* sequential pipeline, main(), of handlers that run external commands and *)
(* rewrite a few files of the cloned project.  One action models one       *)
(* handler; what the environment decides (exit statuses, thrown errors,    *)
(* the operator's answers, the content of the template) is drawn with \E.  *)
(***************************************************************************)
EXTENDS Integers, Sequences, FiniteSets, TLC

VARIABLES
    pc,         \* the step of main() that runs next, or "done" / "exited" / "crashed"
    answers,    \* the Setup Answers record returned by promptUser
    cwd,        \* the process working directory: "start", "project" or "nested"
    fs,         \* the files the pipeline touches, per directory
    cmds,       \* every external command issued so far in this run, in order
    written,    \* the set of project files written so far in this run
    steps,      \* the handlers main() has invoked so far, in order
    out,        \* what the step that ran last did: messages, statuses, writes
    allOk,      \* no command failed and no file operation threw so far
    exitStatus, \* "running", "0" or "1"
    run,        \* 1, or 2 during a second run of the Config Rewriter
    first       \* the project files as the first run of the Config Rewriter left them

vars == <<pc, answers, cwd, fs, cmds, written, steps, out, allOk, exitStatus, run, first>>

----------------------------------------------------------------------------
(* Bounds of the model                                                     *)

\* longest nuxt.config.ts of the enumerated templates, in lexemes
MaxCfgLen == 3
\* longest tailwind.config.js of the enumerated templates, in lexemes
MaxTwLen == 3
\* most file operations that throw during one handler
MaxFaults == 1

----------------------------------------------------------------------------
(* Text: a file is a sequence of lexemes; the string operations of the     *)
(* program act on it as they act on the characters.                        *)

\* s has pat at position i
MatchAt(s, pat, i) ==
    /\ i >= 1
    /\ i + Len(pat) - 1 <= Len(s)
    /\ \A k \in 1..Len(pat) : s[i + k - 1] = pat[k]

\* String.prototype.indexOf, 1-based, 0 when absent
IndexOf(s, pat) ==
    IF \E i \in 1..Len(s) : MatchAt(s, pat, i)
    THEN CHOOSE i \in 1..Len(s) :
            /\ MatchAt(s, pat, i)
            /\ \A j \in 1..(i - 1) : ~MatchAt(s, pat, j)
    ELSE 0

\* String.prototype.includes
Includes(s, pat) == IndexOf(s, pat) # 0

\* String.prototype.replace with a string pattern: the first occurrence only
ReplaceFirst(s, pat, rep) ==
    LET i == IndexOf(s, pat) IN
    IF i = 0 THEN s
    ELSE SubSeq(s, 1, i - 1) \o rep \o SubSeq(s, i + Len(pat), Len(s))

\* String.prototype.replace with a literal /pat/g: every occurrence found in
\* one left-to-right scan of the original text
RECURSIVE ReplaceAllFrom(_, _, _, _)
ReplaceAllFrom(s, pat, rep, i) ==
    IF i > Len(s) THEN <<>>
    ELSE IF MatchAt(s, pat, i)
         THEN rep \o ReplaceAllFrom(s, pat, rep, i + Len(pat))
         ELSE <<s[i]>> \o ReplaceAllFrom(s, pat, rep, i + 1)

ReplaceAll(s, pat, rep) == ReplaceAllFrom(s, pat, rep, 1)

----------------------------------------------------------------------------
(* nuxt.config.ts                                                          *)

OpenDecl == "export default defineNuxtConfig({"
SqUi     == "'@nuxt/ui'"
DqUi     == "\"@nuxt/ui\""
Comma    == ","
CssLine  == "css: ['~/assets/css/tailwind.css'],"

NuxtLexemes == {OpenDecl, SqUi, DqUi, Comma, CssLine}

\* nuxtConfig.replace("'@nuxt/ui',", "")
RemoveNuxtUi(text) == ReplaceFirst(text, <<SqUi, Comma>>, <<>>)

\* nuxtConfig.includes("assets/css/tailwind.css")
HasCssRef(text) == Includes(text, <<CssLine>>)

\* nuxtConfig.replace("export default defineNuxtConfig({", <the same, then the css line>)
InjectCss(text) == ReplaceFirst(text, <<OpenDecl>>, <<OpenDecl, CssLine>>)

\* the text mentions @nuxt/ui in any quoting
MentionsNuxtUi(text) == \E i \in 1..Len(text) : text[i] \in {SqUi, DqUi}

----------------------------------------------------------------------------
(* tailwind.config.js                                                      *)

AtNuxt == "@nuxt"
SlashUi == "/ui"
Newline == "\n"
OtherText == "x"
TailwindDefault == "/** @type {import('tailwindcss').Config} */ export default { content: [...] }"

TwLexemes == {AtNuxt, SlashUi, Comma, Newline, OtherText}

\* how many newlines follow one another from position i on
RECURSIVE NewlineRun(_, _)
NewlineRun(s, i) ==
    IF i <= Len(s) /\ s[i] = Newline THEN 1 + NewlineRun(s, i + 1) ELSE 0

\* .replace(/,\s*\n\s*\n/g, '\n'): a comma and the blank lines after it
RECURSIVE CollapseFrom(_, _)
CollapseFrom(s, i) ==
    IF i > Len(s) THEN <<>>
    ELSE IF s[i] = Comma /\ NewlineRun(s, i + 1) >= 2
         THEN <<Newline>> \o CollapseFrom(s, i + 1 + NewlineRun(s, i + 1))
         ELSE <<s[i]>> \o CollapseFrom(s, i + 1)

\* existingConfig.replace(/@nuxt\/ui/g, '').replace(/,\s*\n\s*\n/g, '\n')
StripTailwindConfig(text) ==
    CollapseFrom(ReplaceAll(text, <<AtNuxt, SlashUi>>, <<>>), 1)

----------------------------------------------------------------------------
(* package.json                                                            *)

NuxtUiDep == "@nuxt/ui"
TailwindDevDeps == {"tailwindcss", "postcss", "autoprefixer"}

\* JSON.parse(fs.readFileSync("package.json")): the object, without the layout
\* of the text it was read from
ParsePkg(file) ==
    [name |-> file.name, license |-> file.license, hasDeps |-> file.hasDeps,
     deps |-> file.deps, dev |-> file.dev]

\* JSON.stringify(packageJson, null, 2): the text in the two-space layout
StringifyPkg(obj) ==
    [here |-> TRUE, ok |-> TRUE, name |-> obj.name, license |-> obj.license,
     hasDeps |-> obj.hasDeps, deps |-> obj.deps, dev |-> obj.dev, fmt |-> "node"]

\* delete packageJson.dependencies["@nuxt/ui"]
DeleteNuxtUi(obj) == [obj EXCEPT !.deps = @ \ {NuxtUiDep}]

\* what a successful `yarn add -D tailwindcss postcss autoprefixer` does to the
\* manifest: the three entries are added and the file is written in yarn's layout
YarnAddDev(file) ==
    [file EXCEPT !.dev = @ \cup TailwindDevDeps, !.fmt = "yarn"]

----------------------------------------------------------------------------
(* The files of one directory.  A text file is [here, text]; the manifest  *)
(* is [here, ok, name, license, hasDeps, deps, dev, fmt], ok meaning that  *)
(* its text parses; the other files matter by their presence only.        *)

NoText == [here |-> FALSE, text |-> <<>>]
NoPkg == [here |-> FALSE, ok |-> FALSE, name |-> "", license |-> "",
          hasDeps |-> FALSE, deps |-> {}, dev |-> {}, fmt |-> "raw"]

EmptyDir ==
    [nuxt |-> NoText, pkg |-> NoPkg, tw |-> NoText, postcss |-> "absent",
     css |-> "absent", cssDir |-> FALSE, appVue |-> FALSE, sub |-> FALSE]

essentialFiles == <<"nuxt.config.ts", "package.json", "tailwind.config.js", "app.vue">>

\* fs.existsSync(file) in directory d
ExistsSync(d, file) ==
    CASE file = "nuxt.config.ts" -> d.nuxt.here
      [] file = "package.json" -> d.pkg.here
      [] file = "tailwind.config.js" -> d.tw.here
      [] file = "app.vue" -> d.appVue
      [] file = "postcss.config.js" -> d.postcss # "absent"
      [] file = "assets/css/tailwind.css" -> d.css # "absent"
      [] file = "assets/css" -> d.cssDir
      [] OTHER -> FALSE

----------------------------------------------------------------------------
(* Messages of the Config Rewriter                                         *)

MsgConfigDone == "UI framework configuration complete!"
MsgNuxtError == "Error occurred while updating nuxt.config.ts:"
MsgTwInstallFailed == "Failed to install Tailwind dependencies"
MsgTwDone == "Tailwind CSS setup complete!"
MsgTwError == "Error occurred while setting up Tailwind:"
MsgPkgDone == "Package.json updated successfully!"
MsgPkgError == "Error occurred while updating package.json:"

YarnAdd == "yarn add -D tailwindcss postcss autoprefixer"

----------------------------------------------------------------------------
(* A handler body is run as a chain of statements over a record            *)
(*   [d, echo, cmds, codes, writes, thrown, returned, exit, cd,            *)
(*    nuxtConfig, packageJson, stdout, failed]                             *)
(* d the files of the working directory, echo the messages, cmds the       *)
(* commands issued and codes their outcomes, writes the files written,     *)
(* thrown an exception on its way to the enclosing catch, returned an      *)
(* early return, exit a call of process.exit(1), cd a change of working    *)
(* directory, nuxtConfig and packageJson the local variables of that name, *)
(* stdout what `node -v` printed, failed the files whose read or parse     *)
(* threw.                                                                  *)
(* A statement leaves the record alone once thrown, returned or exit is    *)
(* set.  F is the set of file operations that throw.                       *)

Begin(d) ==
    [d |-> d, echo |-> <<>>, cmds |-> <<>>, codes |-> <<>>, writes |-> <<>>,
     stdout |-> <<>>, failed |-> <<>>, thrown |-> FALSE, returned |-> FALSE, exit |-> FALSE, cd |-> FALSE,
     nuxtConfig |-> <<>>, packageJson |-> ParsePkg(NoPkg)]

Live(s) == ~s.thrown /\ ~s.returned /\ ~s.exit

\* process.exit(1): nothing after it runs
Exit(s) == IF Live(s) THEN [s EXCEPT !.exit = TRUE] ELSE s

Echo(s, msg) == IF Live(s) THEN [s EXCEPT !.echo = Append(@, msg)] ELSE s

Throw(s) == IF Live(s) THEN [s EXCEPT !.thrown = TRUE] ELSE s

\* fs.readFileSync(file) or JSON.parse of its text throws
ReadFails(s, file) ==
    IF Live(s) THEN [s EXCEPT !.thrown = TRUE, !.failed = Append(@, file)] ELSE s

\* catch (error) { shell.echo(msg, error) }
Catch(s, msg) ==
    IF s.thrown THEN [s EXCEPT !.thrown = FALSE, !.echo = Append(@, msg)] ELSE s

\* variant: the command is started and not waited for
Exec_Detached(s, cmd, code) ==
    IF ~Live(s) THEN s ELSE [s EXCEPT !.cmds = Append(@, cmd)]

\* shell.exec(cmd): the command is issued; code is "0", "1" or "throw"
Exec(s, cmd, code) ==
    IF ~Live(s) THEN s
    ELSE [s EXCEPT !.cmds = Append(@, cmd), !.codes = Append(@, code),
                   !.thrown = (code = "throw")]

\* fs.writeFileSync(file, ...): d2 is the directory with the file written
WriteFile(s, file, point, F, d2) ==
    IF ~Live(s) THEN s
    ELSE IF point \in F THEN Throw(s)
    ELSE [s EXCEPT !.d = d2, !.writes = Append(@, file)]

----------------------------------------------------------------------------
(* Config Rewriter                                                         *)

\* the file operations of the Config Rewriter that can throw
FaultPoints ==
    {"readNuxt", "readTw", "writeTw", "writePostcss", "mkdir", "writeCss",
     "stReadNuxt", "stWriteNuxt", "readPkg", "writePkg", "writeNuxt"}

\* those of them updateNuxtConfig performs itself, outside setupTailwind
RewritePoints == {"readNuxt", "readPkg", "writePkg", "writeNuxt"}

\* those updatePackageJson performs
PkgPoints == {"readPkg", "writePkg"}

\* the sets of operations among P that throw during one handler
FaultsIn(P) == {F \in SUBSET P : Cardinality(F) <= MaxFaults}

\* setupTailwind: tailwind.config.js is stripped when it exists, written anew otherwise
TailwindConfigStep(s, F) ==
    IF ~Live(s) THEN s
    ELSE IF ExistsSync(s.d, "tailwind.config.js")
    THEN IF "readTw" \in F THEN Throw(s)
         ELSE WriteFile(s, "tailwind.config.js", "writeTw", F,
                        [s.d EXCEPT !.tw.text = StripTailwindConfig(@)])
    ELSE WriteFile(s, "tailwind.config.js", "writeTw", F,
                   [s.d EXCEPT !.tw = [here |-> TRUE, text |-> <<TailwindDefault>>]])

\* variant: postcss.config.js is written whether it exists or not
PostcssStep_Always(s, F) ==
    IF Live(s)
    THEN WriteFile(s, "postcss.config.js", "writePostcss", F,
                   [s.d EXCEPT !.postcss = "default"])
    ELSE s

\* setupTailwind: postcss.config.js is written when absent
PostcssStep(s, F) ==
    IF Live(s) /\ ~ExistsSync(s.d, "postcss.config.js")
    THEN WriteFile(s, "postcss.config.js", "writePostcss", F,
                   [s.d EXCEPT !.postcss = "default"])
    ELSE s

\* setupTailwind: assets/css/tailwind.css is written when absent, its
\* directory made when absent
CssEntryStep(s, F) ==
    IF Live(s) /\ ~ExistsSync(s.d, "assets/css/tailwind.css")
    THEN LET m == IF ExistsSync(s.d, "assets/css") THEN s
                  ELSE IF "mkdir" \in F THEN Throw(s)
                  ELSE [s EXCEPT !.d.cssDir = TRUE, !.writes = Append(@, "assets/css")]
         IN WriteFile(m, "assets/css/tailwind.css", "writeCss", F,
                      [m.d EXCEPT !.css = "default"])
    ELSE s

\* setupTailwind: nuxt.config.ts is read from disk and the css line injected
\* when the file does not mention the css entry file
CssIncludeStep(s, F) ==
    IF ~Live(s) THEN s
    ELSE IF ~s.d.nuxt.here \/ "stReadNuxt" \in F THEN ReadFails(s, "nuxt.config.ts")
    ELSE IF ~HasCssRef(s.d.nuxt.text)
    THEN WriteFile(s, "nuxt.config.ts", "stWriteNuxt", F,
                   [s.d EXCEPT !.nuxt.text = InjectCss(@)])
    ELSE s

\* variant: a failed install is logged and setupTailwind goes on
InstallStep_GoOn(s, yarn) ==
    LET a == Exec(Echo(s, "Setting up Tailwind CSS..."), YarnAdd, yarn) IN
    IF ~Live(a) THEN a
    ELSE IF yarn # "0" THEN Echo(a, MsgTwInstallFailed)
    ELSE [a EXCEPT !.d.pkg = YarnAddDev(@)]

\* the install of the toolchain: a non-zero status is logged and ends
\* setupTailwind; status 0 has added the entries to the manifest
InstallStep(s, yarn) ==
    LET a == Exec(Echo(s, "Setting up Tailwind CSS..."), YarnAdd, yarn) IN
    IF ~Live(a) THEN a
    ELSE IF yarn # "0" THEN [Echo(a, MsgTwInstallFailed) EXCEPT !.returned = TRUE]
    ELSE [a EXCEPT !.d.pkg = YarnAddDev(@)]

setupTailwind(s, yarn, F) ==
    IF ~Live(s) THEN s
    ELSE [Catch(
            Echo(
              CssIncludeStep(
                CssEntryStep(
                  PostcssStep(TailwindConfigStep(InstallStep(s, yarn), F), F),
                  F),
                F),
              MsgTwDone),
            MsgTwError)
          EXCEPT !.returned = FALSE]

\* let nuxtConfig = fs.readFileSync("nuxt.config.ts", "utf8")
ReadNuxt(s, F) ==
    IF ~Live(s) THEN s
    ELSE IF ~s.d.nuxt.here \/ "readNuxt" \in F THEN ReadFails(s, "nuxt.config.ts")
    ELSE [s EXCEPT !.nuxtConfig = s.d.nuxt.text]

\* variant: the case 'none' has no break and falls through into 'tailwind'
SwitchOnChoice_FallThrough(s, uiFramework, yarn, F) ==
    IF ~Live(s) THEN s
    ELSE CASE uiFramework \in {"none", "tailwind"} ->
                setupTailwind([Echo(s, "Setting up lightweight Tailwind configuration...")
                                  EXCEPT !.nuxtConfig = RemoveNuxtUi(@)], yarn, F)
           [] uiFramework = "nuxt-ui" -> Echo(s, "Keeping @nuxt/ui configuration...")
           [] OTHER -> s

\* the switch on the choice: the text held in memory loses its first
\* "'@nuxt/ui'," unless the choice is nuxt-ui; tailwind runs setupTailwind
SwitchOnChoice(s, uiFramework, yarn, F) ==
    IF ~Live(s) THEN s
    ELSE CASE uiFramework = "none" ->
                [Echo(s, "Removing UI frameworks for a clean slate...") EXCEPT !.nuxtConfig = RemoveNuxtUi(@)]
           [] uiFramework = "tailwind" ->
                setupTailwind([Echo(s, "Setting up lightweight Tailwind configuration...") EXCEPT
                                  !.nuxtConfig = RemoveNuxtUi(@)], yarn, F)
           [] uiFramework = "nuxt-ui" -> Echo(s, "Keeping @nuxt/ui configuration...")
           [] OTHER -> s

\* const packageJson = JSON.parse(fs.readFileSync("package.json", "utf8"))
ReadPkg(s, F) ==
    IF ~Live(s) THEN s
    ELSE IF ~s.d.pkg.here \/ "readPkg" \in F \/ ~s.d.pkg.ok
    THEN ReadFails(s, "package.json")
    ELSE [s EXCEPT !.packageJson = ParsePkg(s.d.pkg)]

\* variant: the entry is deleted whatever the choice
DeleteDep_Always(s, remove) ==
    IF ~Live(s) THEN s
    ELSE IF ~s.packageJson.hasDeps THEN Throw(s)
    ELSE [s EXCEPT !.packageJson = DeleteNuxtUi(@)]

\* if (remove) delete packageJson.dependencies["@nuxt/ui"]: the delete
\* throws when the manifest has no dependencies object
DeleteDep(s, remove) ==
    IF ~Live(s) \/ ~remove THEN s
    ELSE IF ~s.packageJson.hasDeps THEN Throw(s)
    ELSE [s EXCEPT !.packageJson = DeleteNuxtUi(@)]

\* fs.writeFileSync("package.json", JSON.stringify(packageJson, null, 2))
WritePkg(s, F) ==
    IF ~Live(s) THEN s
    ELSE WriteFile(s, "package.json", "writePkg", F,
                   [s.d EXCEPT !.pkg = StringifyPkg(s.packageJson)])

\* fs.writeFileSync("nuxt.config.ts", nuxtConfig)
WriteNuxt(s, F) ==
    IF ~Live(s) THEN s
    ELSE WriteFile(s, "nuxt.config.ts", "writeNuxt", F,
                   [s.d EXCEPT !.nuxt = [here |-> TRUE, text |-> s.nuxtConfig]])

\* variant: package.json is read together with nuxt.config.ts, before the switch
updateNuxtConfig_ReadPkgFirst(d, uiFramework, yarn, F) ==
    Catch(
      Echo(
        WriteNuxt(
          WritePkg(
            DeleteDep(
              SwitchOnChoice(
                ReadPkg(ReadNuxt(Echo(Begin(d), "Configuring UI framework..."), F), F),
                uiFramework, yarn, F),
              uiFramework # "nuxt-ui"),
            F),
          F),
        MsgConfigDone),
      MsgNuxtError)

updateNuxtConfig(d, uiFramework, yarn, F) ==
    Catch(
      Echo(
        WriteNuxt(
          WritePkg(
            DeleteDep(
              ReadPkg(
                SwitchOnChoice(
                  ReadNuxt(Echo(Begin(d), "Configuring UI framework..."), F),
                  uiFramework, yarn, F),
                F),
              uiFramework # "nuxt-ui"),
            F),
          F),
        MsgConfigDone),
      MsgNuxtError)

\* packageJson.name = projectName; packageJson.license = license
SetNameLicense(s, projectName, license) ==
    IF ~Live(s) THEN s
    ELSE [s EXCEPT !.packageJson.name = projectName, !.packageJson.license = license]

updatePackageJson(d, projectName, license, useNuxtUi, F) ==
    Catch(
      Echo(
        WritePkg(
          DeleteDep(
            SetNameLicense(ReadPkg(Echo(Begin(d), "Updating package.json..."), F), projectName, license),
            ~useNuxtUi),
          F),
        MsgPkgDone),
      MsgPkgError)

----------------------------------------------------------------------------
(* Environment Probe                                                       *)

MinNodeVersion == 18

MsgNodeOops == "Oops! Your Node.js version is not correct. We expected a version above 18.0.0"
MsgNodeError == "Error occurred while checking Node.js version:"
MsgSupabaseMissing == "Oops! Supabase CLI not found. Please install it first."
MsgSupabaseError == "Error occurred while checking Supabase CLI:"
MsgGhMissing == "Oops! GitHub CLI not found. Please install it first."
MsgGhError == "Error occurred while checking GitHub CLI:"

\* the outputs of `node -v` the model draws: vMAJOR.MINOR.PATCH, or text
\* that is no number
NodeVersions ==
    {[num |-> TRUE, major |-> 16, minor |-> 20], [num |-> TRUE, major |-> 17, minor |-> 9],
     [num |-> TRUE, major |-> 18, minor |-> 0], [num |-> TRUE, major |-> 18, minor |-> 17],
     [num |-> TRUE, major |-> 20, minor |-> 1], [num |-> FALSE, major |-> 0, minor |-> 0]}

\* parseFloat(nodeVersion.replace("v", "")) in thousandths: MAJOR.MINOR read
\* as a decimal number, the patch level dropped
ParseFloat1000(v) ==
    v.major * 1000 +
        (IF v.minor < 10 THEN v.minor * 100
         ELSE IF v.minor < 100 THEN v.minor * 10
         ELSE v.minor)

\* variant: a version equal to the floor counts as below it
BelowFloor_Inclusive(v) == v.num /\ ParseFloat1000(v) <= MinNodeVersion * 1000

\* versionNumber < 18.0, false for NaN
BelowFloor(v) == v.num /\ ParseFloat1000(v) < MinNodeVersion * 1000

\* shell.exec("node -v", { silent: true }).stdout: v is what the command prints
NodeV(s, code, v) ==
    IF code = "throw" THEN Exec(s, "node -v", code)
    ELSE [Exec(s, "node -v", code) EXCEPT !.stdout = <<v>>]

\* variant: no try/catch around the version check
checkNodeVersion_NoCatch(code, v) ==
    LET a == NodeV(Begin(EmptyDir), code, v)
    IN IF BelowFloor(v)
       THEN Echo(Echo(Echo(a, MsgNodeOops),
                      "If you have nvm installed, you can fix this with the command:"),
                 "nvm use 18.17.1")
       ELSE a

checkNodeVersion(code, v) ==
    LET a == NodeV(Begin(EmptyDir), code, v)
        b == IF BelowFloor(v)
             THEN Echo(Echo(Echo(a, MsgNodeOops),
                            "If you have nvm installed, you can fix this with the command:"),
                       "nvm use 18.17.1")
             ELSE a
    IN Catch(b, MsgNodeError)

\* shell.which(tool): "found", "missing" or "throw"
checkSupabaseCLI(which) ==
    LET a == IF which = "throw" THEN Throw(Begin(EmptyDir)) ELSE Begin(EmptyDir)
        b == IF which = "missing"
             THEN Echo(Echo(Echo(a, MsgSupabaseMissing),
                            "You can install it with the command:"),
                       "npm install -g supabase")
             ELSE a
    IN Catch(b, MsgSupabaseError)

checkGitHubCLI(which) ==
    LET a == IF which = "throw" THEN Throw(Begin(EmptyDir)) ELSE Begin(EmptyDir)
        b == IF which = "missing"
             THEN Echo(Echo(Echo(a, MsgGhMissing),
                            "You can install it with the command:"),
                       "brew install gh")
             ELSE a
    IN Catch(b, MsgGhError)

----------------------------------------------------------------------------
(* Answer Collector                                                        *)

MsgPromptError == "Error occurred while prompting for user input:"

NoAnswers ==
    [projectName |-> "", uiFramework |-> "", isRepoPublic |-> FALSE, license |-> "",
     githubOrg |-> "", customGithubOrg |-> "", autoCommitPush |-> FALSE]

\* variant: a rejection is logged and the run goes on
promptUser_NoExit(resolved) ==
    IF resolved THEN Begin(EmptyDir)
    ELSE Catch(Throw(Begin(EmptyDir)), MsgPromptError)

\* inquirer.prompt resolved or rejected; a rejection is logged and exits
promptUser(resolved) ==
    IF resolved THEN Begin(EmptyDir)
    ELSE Exit(Catch(Throw(Begin(EmptyDir)), MsgPromptError))

----------------------------------------------------------------------------
(* Repository Fetcher                                                      *)

MsgNotAccessible == "Template repository not accessible. Please check https://github.com/room302studio/nuxt-template"
MsgCloneFailed == "Oops! Git clone failed"
MsgMissing == "Template repository is missing essential files: "
MsgCloned == "Hooray! Successfully cloned the template repo"
MsgCloneError == "Error occurred while cloning the template repo:"

GhView == "gh repo view room302studio/nuxt-template --json name,html_url"
GhClone(projectName) == "gh repo clone room302studio/nuxt-template " \o projectName

\* Array.prototype.join(', ')
RECURSIVE Join(_)
Join(names) ==
    IF Len(names) = 0 THEN ""
    ELSE IF Len(names) = 1 THEN names[1]
    ELSE names[1] \o ", " \o Join(Tail(names))

\* essentialFiles.filter(file => !fs.existsSync(file))
\* variant: app.vue is not among the files verified
MissingFiles_NoAppVue(d) ==
    SelectSeq(essentialFiles, LAMBDA file : file # "app.vue" /\ ~ExistsSync(d, file))

MissingFiles(d) == SelectSeq(essentialFiles, LAMBDA file : ~ExistsSync(d, file))

\* variant: the reachability failure is reported but the process goes on
AfterView_NoExit(s, view) ==
    IF Live(s) /\ view # "0" THEN Echo(s, MsgNotAccessible) ELSE s

\* exit when the reachability check reports non-zero
AfterView(s, view) ==
    IF Live(s) /\ view # "0" THEN Exit(Echo(s, MsgNotAccessible)) ELSE s

\* exit when the clone reports non-zero
AfterClone(s, clone) ==
    IF Live(s) /\ clone # "0" THEN Exit(Echo(s, MsgCloneFailed)) ELSE s

\* variant: missing files are reported but the process goes on
AfterVerify_NoExit(s) ==
    IF ~Live(s) THEN s
    ELSE IF Len(MissingFiles(s.d)) > 0
    THEN Echo(s, MsgMissing \o Join(MissingFiles(s.d)))
    ELSE Echo(s, MsgCloned)

\* exit when an essential file is missing, the success message otherwise
AfterVerify(s) ==
    IF ~Live(s) THEN s
    ELSE IF Len(MissingFiles(s.d)) > 0
    THEN Exit(Echo(s, MsgMissing \o Join(MissingFiles(s.d))))
    ELSE Echo(s, MsgCloned)

\* a successful clone has made the directory, with the template's files d,
\* and shell.cd(projectName) enters it
EnterClone(s, d) == IF Live(s) THEN [s EXCEPT !.d = d, !.cd = TRUE] ELSE s

\* catch (error) { shell.echo(...); process.exit(1) }
CatchAndExit(s, msg) == IF s.thrown THEN Exit(Catch(s, msg)) ELSE s

\* tpl: the files of the directory a successful clone creates
cloneTemplateRepo(projectName, view, clone, tpl) ==
    CatchAndExit(
      AfterVerify(
        EnterClone(
          AfterClone(
            Exec(
              AfterView(Exec(Echo(Begin(EmptyDir), "Let's clone the template repo..."), GhView, view), view),
              GhClone(projectName), clone),
            clone),
          tpl)),
      MsgCloneError)

----------------------------------------------------------------------------
(* Version-Control Initializer, Remote Repository Creator, Finalizer       *)

MsgRmFailed == "Oops! Failed to remove existing git repo"
MsgInitFailed == "Oops! Git init failed"
MsgGitDone == "Git repository initialized!"
MsgGitError == "Error occurred while initializing a new git repo:"
MsgRepoFailed == "Oops! Failed to create GitHub repository"
MsgRepoDone == "GitHub repository created successfully!"
MsgRepoError == "Error occurred while creating GitHub repository:"
MsgAddFailed == "Oops! Git add failed"
MsgCommitFailed == "Oops! Git commit failed"
MsgPushFailed == "Oops! Git push failed"
MsgPushed == "Changes pushed to GitHub successfully!"
MsgCommitError == "Error occurred while committing and pushing changes:"
MsgEditorFailed == "Oops! Tried and failed to open the repo in VSCode"
MsgEditorError == "Error occurred while opening the repo in VSCode:"
MsgInstallFailed == "Oops! yarn install failed"
MsgInstallDone == "Dependencies installed successfully!"
MsgInstallError == "Error occurred while installing dependencies:"

RmGit == "rm -rf .git"
GitInit == "git init"
GitAdd == "git add ."
GitCommit == "git commit -m \"feat: begin project\""
GitPush == "git push -u origin main"
YarnInstall == "yarn install"
CodeDot == "code ."

\* if (shell.exec(cmd).code !== 0) shell.echo(failed)
\* variant: a failed command ends the handler
ExecOrWarn_Stop(s, cmd, code, failed) ==
    LET a == Exec(s, cmd, code) IN
    IF Live(a) /\ code # "0" THEN [Echo(a, failed) EXCEPT !.returned = TRUE] ELSE a

ExecOrWarn(s, cmd, code, failed) ==
    LET a == Exec(s, cmd, code) IN
    IF Live(a) /\ code # "0" THEN Echo(a, failed) ELSE a

\* if (shell.exec(cmd).code !== 0) shell.echo(failed) else shell.echo(done)
ExecOrWarnElse(s, cmd, code, failed, done) ==
    LET a == Exec(s, cmd, code) IN
    IF Live(a) /\ code # "0" THEN Echo(a, failed) ELSE Echo(a, done)

\* variant: git init is only attempted when the removal succeeded
initGitRepo_InitAfterCleanRm(d, rm, init) ==
    LET a == ExecOrWarn(Echo(Begin(d), "Initializing fresh Git repository..."),
                        RmGit, rm, MsgRmFailed)
        b == IF rm = "0" THEN ExecOrWarn(a, GitInit, init, MsgInitFailed) ELSE a
    IN Catch(Echo(b, MsgGitDone), MsgGitError)

initGitRepo(d, rm, init) ==
    LET a == ExecOrWarn(Echo(Begin(d), "Initializing fresh Git repository..."),
                        RmGit, rm, MsgRmFailed)
        b == ExecOrWarn(a, GitInit, init, MsgInitFailed)
    IN Catch(Echo(b, MsgGitDone), MsgGitError)

\* variant: the custom organisation's name is not used
githubOrgName_Other(githubOrg, customGithubOrg) ==
    IF githubOrg = "personal" THEN ""
    ELSE IF githubOrg = "room302studio" THEN "room302studio/"
    ELSE githubOrg \o "/"

\* the owner prefix of the repository path
githubOrgName(githubOrg, customGithubOrg) ==
    IF githubOrg = "personal" THEN ""
    ELSE IF githubOrg = "room302studio" THEN "room302studio/"
    ELSE customGithubOrg \o "/"

repoVisibility(isRepoPublic) == IF isRepoPublic THEN "public" ELSE "private"

\* the message that tells which owner was chosen
MsgOwner(githubOrg, customGithubOrg) ==
    IF githubOrg = "personal" THEN "Creating in your personal GitHub account..."
    ELSE IF githubOrg = "room302studio" THEN "Creating in Room302 Studio organization..."
    ELSE "Creating in " \o customGithubOrg \o " organization..."

GhCreate(projectName, isRepoPublic, githubOrg, customGithubOrg, pwd) ==
    "gh repo create " \o githubOrgName(githubOrg, customGithubOrg) \o projectName
        \o " --" \o repoVisibility(isRepoPublic) \o " --source=" \o pwd

createGitHubRepo(d, projectName, isRepoPublic, githubOrg, customGithubOrg, pwd, code) ==
    LET a == Echo(Echo(Begin(d), "Creating GitHub repository..."),
                  MsgOwner(githubOrg, customGithubOrg))
        b == ExecOrWarnElse(a, GhCreate(projectName, isRepoPublic, githubOrg,
                                        customGithubOrg, pwd),
                            code, MsgRepoFailed, MsgRepoDone)
    IN Catch(b, MsgRepoError)

\* variant: the flag is not consulted
commitAndPush_Always(d, autoCommitPush, add, commit, push) ==
    LET a == ExecOrWarn(Echo(Begin(d), "Preparing initial commit..."), GitAdd, add, MsgAddFailed)
        b == ExecOrWarn(a, GitCommit, commit, MsgCommitFailed)
        c == ExecOrWarnElse(Echo(b, "Pushing to GitHub..."), GitPush, push,
                            MsgPushFailed, MsgPushed)
    IN Catch(c, MsgCommitError)

commitAndPush(d, autoCommitPush, add, commit, push) ==
    IF ~autoCommitPush THEN Begin(d)
    ELSE LET a == ExecOrWarn(Echo(Begin(d), "Preparing initial commit..."),
                             GitAdd, add, MsgAddFailed)
             b == ExecOrWarn(a, GitCommit, commit, MsgCommitFailed)
             c == ExecOrWarnElse(Echo(b, "Pushing to GitHub..."), GitPush, push,
                                 MsgPushFailed, MsgPushed)
         IN Catch(c, MsgCommitError)

openInEditor(d, code) ==
    Catch(ExecOrWarn(Begin(d), CodeDot, code, MsgEditorFailed), MsgEditorError)

\* variant: no try/catch around the install
installDependencies_NoCatch(d, code) ==
    ExecOrWarnElse(Echo(Begin(d), "Installing project dependencies..."), YarnInstall, code,
                   MsgInstallFailed, MsgInstallDone)

installDependencies(d, code) ==
    Catch(ExecOrWarnElse(Echo(Begin(d), "Installing project dependencies..."), YarnInstall, code,
                         MsgInstallFailed, MsgInstallDone),
          MsgInstallError)

----------------------------------------------------------------------------
(* The inputs the model draws                                              *)

Codes == {"0", "1", "throw"}
Whiches == {"found", "missing", "throw"}

SeqsUpTo(S, n) == UNION {[1..k -> S] : k \in 0..n}

Text(t) == [here |-> TRUE, text |-> t]

BasePkg ==
    [here |-> TRUE, ok |-> TRUE, name |-> "nuxt-template", license |-> "UNLICENSED",
     hasDeps |-> TRUE, deps |-> {NuxtUiDep, "nuxt"}, dev |-> {}, fmt |-> "raw"]

\* the template as the README describes it: @nuxt/ui registered and listed,
\* a tailwind.config.js, no utility-CSS entry file yet
BaseDir ==
    [nuxt |-> Text(<<OpenDecl, SqUi, Comma>>), pkg |-> BasePkg,
     tw |-> Text(<<AtNuxt, SlashUi, Comma>>), postcss |-> "absent",
     css |-> "absent", cssDir |-> FALSE, appVue |-> TRUE, sub |-> FALSE]

\* the directory without the files named in gone
Without(d, gone) ==
    [d EXCEPT !.nuxt = IF "nuxt.config.ts" \in gone THEN NoText ELSE @,
              !.pkg = IF "package.json" \in gone THEN NoPkg ELSE @,
              !.tw = IF "tailwind.config.js" \in gone THEN NoText ELSE @,
              !.appVue = IF "app.vue" \in gone THEN FALSE ELSE @]

EssentialSet == {essentialFiles[i] : i \in 1..Len(essentialFiles)}

\* manifests: the base one, one without a dependencies object, one that
\* lists no @nuxt/ui, one that already has the toolchain, one that does not parse
PkgCore ==
    {BasePkg,
     [BasePkg EXCEPT !.hasDeps = FALSE, !.deps = {}],
     [BasePkg EXCEPT !.deps = {"nuxt"}],
     [BasePkg EXCEPT !.dev = TailwindDevDeps, !.fmt = "node"],
     [BasePkg EXCEPT !.ok = FALSE]}

NuxtCore ==
    {<<OpenDecl, SqUi, Comma>>, <<OpenDecl, DqUi>>, <<OpenDecl, SqUi>>,
     <<OpenDecl, SqUi, Comma, SqUi, Comma>>, <<OpenDecl, CssLine, SqUi, Comma>>,
     <<SqUi, Comma>>}

\* the utility-CSS files a template may bring: none, the directory only, all
CssCore ==
    {[postcss |-> "absent", css |-> "absent", cssDir |-> FALSE],
     [postcss |-> "absent", css |-> "absent", cssDir |-> TRUE],
     [postcss |-> "template", css |-> "absent", cssDir |-> FALSE],
     [postcss |-> "template", css |-> "template", cssDir |-> TRUE]}

WithCss(d, c) == [d EXCEPT !.postcss = c.postcss, !.css = c.css, !.cssDir = c.cssDir]

\* templates of the whole pipeline: the base template, one variation at a
\* time, and every set of essential files missing
MainRoots ==
    {BaseDir, [BaseDir EXCEPT !.sub = TRUE]}
    \cup {[BaseDir EXCEPT !.nuxt = Text(t)] : t \in {<<OpenDecl, DqUi>>}}
    \cup {[BaseDir EXCEPT !.pkg = p] : p \in PkgCore}
    \cup {Without(BaseDir, gone) : gone \in SUBSET EssentialSet}

Templates == {[root |-> r, nested |-> EmptyDir] : r \in MainRoots}

\* templates of the Config Rewriter: every nuxt.config.ts and every
\* tailwind.config.js up to the bounds, and the core variations together
RewriteRoots ==
    {[BaseDir EXCEPT !.nuxt = Text(t)] : t \in SeqsUpTo(NuxtLexemes, MaxCfgLen)}
    \cup {[BaseDir EXCEPT !.tw = Text(t)] : t \in SeqsUpTo(TwLexemes, MaxTwLen)}
    \cup {[BaseDir EXCEPT !.tw = IF h THEN @ ELSE NoText] : h \in BOOLEAN}
    \cup {[BaseDir EXCEPT !.tw = Text(<<AtNuxt, AtNuxt, SlashUi, SlashUi>>)]}
    \cup {WithCss([BaseDir EXCEPT !.nuxt = Text(t), !.pkg = p], c) :
            t \in NuxtCore, p \in PkgCore, c \in CssCore}

UiFrameworks == {"nuxt-ui", "tailwind", "none"}
GithubOrgs == {"personal", "room302studio", "other"}

\* the answers inquirer can return; customGithubOrg is asked only for "other"
AnswerSet ==
    {[projectName |-> "demo", uiFramework |-> ui, isRepoPublic |-> pub,
      license |-> "mit", githubOrg |-> org,
      customGithubOrg |-> IF org = "other" THEN "acme" ELSE "",
      autoCommitPush |-> auto] :
        ui \in UiFrameworks, pub \in BOOLEAN, org \in GithubOrgs, auto \in BOOLEAN}

NoFiles == [project |-> EmptyDir, nested |-> EmptyDir]
NoOut == [step |-> "", echo |-> <<>>, cmds |-> <<>>, codes |-> <<>>, writes |-> <<>>,
          stdout |-> <<>>, failed |-> <<>>]

----------------------------------------------------------------------------
(* main()                                                                  *)

MsgAllDone == "All done! Your project is ready to go!"

Range(q) == {q[i] : i \in 1..Len(q)}

AllZero(codes) == \A i \in 1..Len(codes) : codes[i] = "0"

\* shell.cd(projectName): into the directory of that name under the working
\* directory when there is one; otherwise the working directory stays
ShellCd(dir, hasSub) ==
    IF dir = "start" THEN "project"
    ELSE IF dir = "project" /\ hasSub THEN "nested"
    ELSE dir

\* shell.pwd()
Pwd(dir, projectName) ==
    IF dir = "start" THEN "/start"
    ELSE IF dir = "project" THEN "/start/" \o projectName
    ELSE "/start/" \o projectName \o "/" \o projectName

\* `await handler(...)` in main: s is what the handler did.  process.exit
\* ends the run with status 1; an exception no handler caught rejects main,
\* which nothing catches, and ends the run with status 1 too.
Await(name, next, s, clean) ==
    /\ steps' = Append(steps, name)
    /\ cmds' = cmds \o s.cmds
    /\ written' = written \cup Range(s.writes)
    /\ out' = [step |-> name, echo |-> s.echo, cmds |-> s.cmds,
               codes |-> s.codes, writes |-> s.writes, stdout |-> s.stdout,
               failed |-> s.failed]
    /\ allOk' = (allOk /\ clean /\ AllZero(s.codes))
    /\ pc' = IF s.exit THEN "exited" ELSE IF s.thrown THEN "crashed" ELSE next
    /\ exitStatus' = IF s.exit \/ s.thrown THEN "1" ELSE exitStatus

Here == fs[cwd]

CheckNodeVersion ==
    /\ pc = "checkNodeVersion"
    /\ \E code \in {"0", "throw"}, v \in NodeVersions :
          Await("checkNodeVersion", "checkSupabaseCLI", checkNodeVersion(code, v),
                ~BelowFloor(v))
    /\ UNCHANGED <<answers, cwd, fs, run, first>>

CheckSupabaseCLI ==
    /\ pc = "checkSupabaseCLI"
    /\ \E which \in Whiches :
          Await("checkSupabaseCLI", "checkGitHubCLI", checkSupabaseCLI(which),
                which = "found")
    /\ UNCHANGED <<answers, cwd, fs, run, first>>

CheckGitHubCLI ==
    /\ pc = "checkGitHubCLI"
    /\ \E which \in Whiches :
          Await("checkGitHubCLI", "promptUser", checkGitHubCLI(which), which = "found")
    /\ UNCHANGED <<answers, cwd, fs, run, first>>

PromptUser ==
    /\ pc = "promptUser"
    /\ \E resolved \in BOOLEAN, a \in AnswerSet :
          /\ answers' = IF resolved THEN a ELSE answers
          /\ Await("promptUser", "cloneTemplateRepo", promptUser(resolved), resolved)
    /\ UNCHANGED <<cwd, fs, run, first>>

CloneTemplateRepo ==
    /\ pc = "cloneTemplateRepo"
    /\ \E view \in Codes, clone \in Codes, tpl \in Templates :
          LET s == cloneTemplateRepo(answers.projectName, view, clone, tpl.root) IN
          /\ Await("cloneTemplateRepo", "cd", s, TRUE)
          /\ fs' = IF s.cd THEN [project |-> tpl.root, nested |-> tpl.nested] ELSE fs
          /\ cwd' = IF s.cd THEN ShellCd(cwd, FALSE) ELSE cwd
    /\ UNCHANGED <<answers, run, first>>

\* main: shell.cd(projectName) and the message after it
MainCd ==
    /\ pc = "cd"
    /\ cwd' = ShellCd(cwd, Here.sub)
    /\ pc' = "updateNuxtConfig"
    /\ out' = [NoOut EXCEPT !.step = "main", !.echo = <<"Setting up project structure...">>]
    /\ UNCHANGED <<answers, fs, cmds, written, steps, allOk, exitStatus, run, first>>

UpdateNuxtConfig ==
    /\ pc = "updateNuxtConfig"
    /\ \E yarn \in Codes,
          F \in FaultsIn(IF answers.uiFramework = "tailwind" THEN FaultPoints
                         ELSE RewritePoints) :
          /\ yarn = "0" => (Here.pkg.here /\ Here.pkg.ok)
          /\ answers.uiFramework # "tailwind" => yarn = "1"
          /\ LET s == updateNuxtConfig(Here, answers.uiFramework, yarn, F) IN
             /\ Await("updateNuxtConfig", "updatePackageJson", s, F = {})
             /\ fs' = [fs EXCEPT ![cwd] = s.d]
    /\ UNCHANGED <<answers, cwd, run, first>>

UpdatePackageJson ==
    /\ pc = "updatePackageJson"
    /\ \E F \in FaultsIn(PkgPoints) :
          LET s == updatePackageJson(Here, answers.projectName, answers.license,
                                     answers.uiFramework = "nuxt-ui", F) IN
          /\ Await("updatePackageJson", "initGitRepo", s, F = {})
          /\ fs' = [fs EXCEPT ![cwd] = s.d]
    /\ UNCHANGED <<answers, cwd, run, first>>

InitGitRepo ==
    /\ pc = "initGitRepo"
    /\ \E rm \in Codes, init \in Codes :
          Await("initGitRepo", "createGitHubRepo", initGitRepo(Here, rm, init), TRUE)
    /\ UNCHANGED <<answers, cwd, fs, run, first>>

CreateGitHubRepo ==
    /\ pc = "createGitHubRepo"
    /\ \E code \in Codes :
          Await("createGitHubRepo", "commitAndPush",
                createGitHubRepo(Here, answers.projectName, answers.isRepoPublic,
                                 answers.githubOrg, answers.customGithubOrg,
                                 Pwd(cwd, answers.projectName), code),
                TRUE)
    /\ UNCHANGED <<answers, cwd, fs, run, first>>

\* variant: main goes from commit/push straight to the editor
CommitAndPush_ThenEditor ==
    /\ pc = "commitAndPush"
    /\ \E add \in Codes, commit \in Codes, push \in Codes :
          Await("commitAndPush", "openInEditor",
                commitAndPush(Here, answers.autoCommitPush, add, commit, push), TRUE)
    /\ UNCHANGED <<answers, cwd, fs, run, first>>

CommitAndPush ==
    /\ pc = "commitAndPush"
    /\ \E add \in Codes, commit \in Codes, push \in Codes :
          Await("commitAndPush", "installDependencies",
                commitAndPush(Here, answers.autoCommitPush, add, commit, push), TRUE)
    /\ UNCHANGED <<answers, cwd, fs, run, first>>

InstallDependencies ==
    /\ pc = "installDependencies"
    /\ \E code \in Codes :
          Await("installDependencies", "openInEditor", installDependencies(Here, code),
                TRUE)
    /\ UNCHANGED <<answers, cwd, fs, run, first>>

OpenInEditor ==
    /\ pc = "openInEditor"
    /\ \E code \in Codes :
          Await("openInEditor", "finish", openInEditor(Here, code), TRUE)
    /\ UNCHANGED <<answers, cwd, fs, run, first>>

\* main: the closing messages; the process ends with status 0
Finish ==
    /\ pc = "finish"
    /\ pc' = "done"
    /\ out' = [NoOut EXCEPT !.step = "main", !.echo = <<MsgAllDone>>]
    /\ exitStatus' = "0"
    /\ UNCHANGED <<answers, cwd, fs, cmds, written, steps, allOk, run, first>>

Init ==
    /\ pc = "checkNodeVersion"
    /\ answers = NoAnswers
    /\ cwd = "start"
    /\ fs = NoFiles
    /\ cmds = <<>>
    /\ written = {}
    /\ steps = <<>>
    /\ out = NoOut
    /\ allOk = TRUE
    /\ exitStatus = "running"
    /\ run = 1
    /\ first = NoFiles

Next ==
    \/ CheckNodeVersion
    \/ CheckSupabaseCLI
    \/ CheckGitHubCLI
    \/ PromptUser
    \/ CloneTemplateRepo
    \/ MainCd
    \/ UpdateNuxtConfig
    \/ UpdatePackageJson
    \/ InitGitRepo
    \/ CreateGitHubRepo
    \/ CommitAndPush
    \/ InstallDependencies
    \/ OpenInEditor
    \/ Finish

Spec == Init /\ [][Next]_vars

----------------------------------------------------------------------------
(* The Config Rewriter on its own: main() has cloned a template and        *)
(* entered the project; updateNuxtConfig and updatePackageJson run, and    *)
(* may be run once more, with the same answers, on the files they left.    *)

RewriteAnswers == {a \in AnswerSet :
                      a.isRepoPublic /\ a.githubOrg = "personal" /\ a.autoCommitPush}

StepsBeforeRewrite ==
    <<"checkNodeVersion", "checkSupabaseCLI", "checkGitHubCLI", "promptUser",
      "cloneTemplateRepo">>

InitRewrite ==
    /\ pc = "updateNuxtConfig"
    /\ answers \in RewriteAnswers
    /\ cwd = "project"
    /\ \E r \in RewriteRoots : fs = [project |-> r, nested |-> EmptyDir]
    /\ cmds = <<"node -v", GhView, GhClone(answers.projectName)>>
    /\ written = {}
    /\ steps = StepsBeforeRewrite
    /\ out = [NoOut EXCEPT !.step = "main", !.echo = <<"Setting up project structure...">>]
    /\ allOk = TRUE
    /\ exitStatus = "running"
    /\ run = 1
    /\ first = NoFiles

\* the Config Rewriter is started again on its own output
SecondRun ==
    /\ pc = "initGitRepo"
    /\ run = 1
    /\ allOk
    /\ pc' = "updateNuxtConfig"
    /\ run' = 2
    /\ first' = fs
    /\ UNCHANGED <<answers, cwd, fs, cmds, written, steps, out, allOk, exitStatus>>

NextRewrite ==
    \/ UpdateNuxtConfig
    \/ UpdatePackageJson
    \/ SecondRun

SpecRewrite == InitRewrite /\ [][NextRewrite]_vars

----------------------------------------------------------------------------
(* Properties of the Config Rewriter, under SpecRewrite                    *)

\* the handler that ran last logged no caught error
NoCaughtError ==
    /\ MsgNuxtError \notin Range(out.echo)
    /\ MsgTwError \notin Range(out.echo)
    /\ MsgPkgError \notin Range(out.echo)

\* C1: when updateNuxtConfig runs with the choice tailwind, every command and
\* file operation succeeds, and nuxt.config.ts had the opening declaration
\* and no reference to assets/css/tailwind.css, then on return nuxt.config.ts
\* has the css line immediately after the opening declaration.
C1_CssLineSurvives ==
    [][(/\ pc = "updateNuxtConfig"
        /\ answers.uiFramework = "tailwind"
        /\ Includes(Here.nuxt.text, <<OpenDecl>>)
        /\ ~HasCssRef(Here.nuxt.text)
        /\ allOk')
       => Includes(fs'[cwd].nuxt.text, <<OpenDecl, CssLine>>)]_vars

\* C2: for every choice and every template whose nuxt.config.ts registers
\* @nuxt/ui (in any quoting, with or without a trailing comma, any number of
\* times) and whose package.json lists @nuxt/ui: after updateNuxtConfig
\* returns without a caught error, nuxt.config.ts mentions @nuxt/ui iff the
\* choice is nuxt-ui, and package.json lists @nuxt/ui iff the choice is nuxt-ui.
C2_NuxtUiIffChosen ==
    [][(/\ pc = "updateNuxtConfig"
        /\ MentionsNuxtUi(Here.nuxt.text)
        /\ Here.pkg.ok /\ NuxtUiDep \in Here.pkg.deps
        /\ NoCaughtError')
       => /\ MentionsNuxtUi(fs'[cwd].nuxt.text) <=> (answers.uiFramework = "nuxt-ui")
          /\ (NuxtUiDep \in fs'[cwd].pkg.deps) <=> (answers.uiFramework = "nuxt-ui")]_vars

\* C3: a second run of updateNuxtConfig and updatePackageJson with the same
\* answers, on the files the first run produced, leaves every file with the
\* content it had after the first run.
C3_SecondRunChangesNothing ==
    (pc = "initGitRepo" /\ run = 2 /\ allOk) => fs = first

----------------------------------------------------------------------------
(* Properties of the pipeline, under Spec                                 *)

\* C4: createGitHubRepo issues the remote-creation command exactly once, with
\* the path projectName, room302studio/projectName or customGithubOrg/projectName
\* for personal, room302studio and other, and with --public iff isRepoPublic.
C4_RepoCreateCommand ==
    LET path == CASE answers.githubOrg = "personal" -> answers.projectName
                  [] answers.githubOrg = "room302studio" ->
                         "room302studio/" \o answers.projectName
                  [] answers.githubOrg = "other" ->
                         answers.customGithubOrg \o "/" \o answers.projectName
                  [] OTHER -> "?"
        flag == IF answers.isRepoPublic THEN " --public" ELSE " --private"
    IN out.step = "createGitHubRepo" =>
           out.cmds = <<"gh repo create " \o path \o flag
                          \o " --source=" \o Pwd(cwd, answers.projectName)>>

C4_Witness ==
    /\ out.step = "createGitHubRepo"
    /\ answers.githubOrg = "other"
    /\ ~answers.isRepoPublic

\* C5: if the reachability check returns a non-zero status, cloneTemplateRepo
\* emits 'Template repository not accessible', the process exits with status 1,
\* and the clone command is never issued in that run.
C5_UnreachableExits ==
    (out.step = "cloneTemplateRepo" /\ out.codes # <<>> /\ out.codes[1] = "1") =>
        /\ MsgNotAccessible \in Range(out.echo)
        /\ pc = "exited"
        /\ exitStatus = "1"
        /\ GhClone(answers.projectName) \notin Range(cmds)

C5_Witness ==
    /\ out.step = "cloneTemplateRepo"
    /\ out.codes = <<"1">>
    /\ pc = "exited"

\* the essential files absent from the cloned directory
AbsentEssential == {f \in EssentialSet : ~ExistsSync(fs.project, f)}

\* C6: after a successful reachability check and a successful clone,
\* cloneTemplateRepo exits with status 1 iff an essential file is absent from
\* the cloned directory, the list it reports is exactly the absent files, and
\* with none absent it emits the success message and does not exit.
C6_VerifyEssentialFiles ==
    LET n == Cardinality(AbsentEssential)
        Listings == {q \in [1..n -> AbsentEssential] :
                        \A i, j \in 1..n : q[i] = q[j] => i = j}
    IN
    (out.step = "cloneTemplateRepo" /\ out.codes = <<"0", "0">>) =>
        /\ (exitStatus = "1") <=> (AbsentEssential # {})
        /\ (pc = "exited") <=> (AbsentEssential # {})
        /\ AbsentEssential # {} =>
              \E q \in Listings :
                  out.echo[Len(out.echo)] = MsgMissing \o Join(q)
        /\ AbsentEssential = {} =>
              /\ out.echo[Len(out.echo)] = MsgCloned
              /\ pc = "cd"

C6_Witness ==
    /\ out.step = "cloneTemplateRepo"
    /\ out.codes = <<"0", "0">>
    /\ AbsentEssential = {"package.json", "app.vue"}
    /\ exitStatus = "1"

\* the fetcher ended fatally: the template was unreachable, the clone failed,
\* an essential file is missing, or a command threw
FetcherFatal ==
    /\ out.step = "cloneTemplateRepo"
    /\ \/ out.codes # <<"0", "0">>
       \/ AbsentEssential # {}

\* C7: after any fatal Repository Fetcher outcome no later step has any
\* effect: no project file is written and no yarn, git init, gh repo create,
\* git add/commit/push or editor command is issued in that run.
C7_NothingAfterFatalFetch ==
    [][FetcherFatal =>
          /\ written = {}
          /\ Range(cmds) \subseteq {"node -v", GhView, GhClone(answers.projectName)}
          /\ UNCHANGED <<pc, fs, cwd, cmds, written, steps>>]_vars

C7_Witness ==
    /\ FetcherFatal
    /\ out.codes = <<"0", "0">>
    /\ pc = "exited"

\* C8: when the auto-commit flag is false, commitAndPush issues no external
\* command: none of git add, git commit, git push is invoked.
C8_NoCommitWithoutFlag ==
    ~answers.autoCommitPush =>
        /\ Range(cmds) \cap {GitAdd, GitCommit, GitPush} = {}
        /\ out.step = "commitAndPush" => out.cmds = <<>>

C8_Witness ==
    /\ out.step = "commitAndPush"
    /\ ~answers.autoCommitPush
    /\ pc = "installDependencies"

\* C9: when the auto-commit flag is true, commitAndPush issues git add, git
\* commit and git push, each once and in that order, whatever status the
\* earlier ones returned, and each non-zero status is reported with its own
\* message.
C9_AddCommitPushInOrder ==
    (/\ out.step = "commitAndPush"
     /\ answers.autoCommitPush
     /\ "throw" \notin Range(out.codes)) =>
        /\ out.cmds = <<GitAdd, GitCommit, GitPush>>
        /\ (out.codes[1] # "0") <=> (MsgAddFailed \in Range(out.echo))
        /\ (out.codes[2] # "0") <=> (MsgCommitFailed \in Range(out.echo))
        /\ (out.codes[3] # "0") <=> (MsgPushFailed \in Range(out.echo))
        /\ Cardinality({MsgAddFailed, MsgCommitFailed, MsgPushFailed}) = Len(out.cmds)

C9_Witness ==
    /\ out.step = "commitAndPush"
    /\ answers.autoCommitPush
    /\ out.codes = <<"1", "1", "0">>

\* every step of main(), in the order main() awaits them
AllSteps ==
    <<"checkNodeVersion", "checkSupabaseCLI", "checkGitHubCLI", "promptUser",
      "cloneTemplateRepo", "updateNuxtConfig", "updatePackageJson", "initGitRepo",
      "createGitHubRepo", "commitAndPush", "installDependencies", "openInEditor">>

\* the step main() goes to after each step that follows the fetcher
LaterSteps ==
    [cd |-> "updateNuxtConfig", updateNuxtConfig |-> "updatePackageJson",
     updatePackageJson |-> "initGitRepo", initGitRepo |-> "createGitHubRepo",
     createGitHubRepo |-> "commitAndPush", commitAndPush |-> "installDependencies",
     installDependencies |-> "openInEditor", openInEditor |-> "finish",
     finish |-> "done"]

\* C10: whatever fails in the non-fatal steps (a non-zero status or a thrown
\* exception), a run in which answer collection and the Repository Fetcher
\* succeed invokes every later step and reaches normal completion: each step
\* after the fetcher hands over to the next one, none exits with status 1,
\* and the run ends with the final 'All done' message.
C10_NonFatalStepsContinue ==
    [][(pc \in DOMAIN LaterSteps) =>
         (/\ pc' = LaterSteps[pc]
          /\ exitStatus' # "1"
          /\ pc \notin {"cd", "finish"} => steps' = Append(steps, pc)
          /\ pc' = "done" =>
                /\ steps' = AllSteps
                /\ MsgAllDone \in Range(out'.echo)
                /\ exitStatus' = "0")]_vars

C10_Witness ==
    /\ pc = "done"
    /\ ~allOk
    /\ written = {}
    /\ Range(cmds) \cap {GitAdd, YarnAdd} # {}

\* C11: the process ends with status 1 only from a fatal cause: answer
\* collection failed, the template was unreachable, the clone failed, or an
\* essential file is missing; a failure or exception in any other step never
\* ends the process and never escapes its step.
C11_OnlyFatalCausesExit ==
    /\ pc # "crashed"
    /\ (exitStatus = "1") <=> (pc = "exited")
    /\ pc = "exited" =>
          \/ out.step = "promptUser" /\ MsgPromptError \in Range(out.echo)
          \/ out.step = "cloneTemplateRepo" /\ out.codes[1] # "0"
          \/ out.step = "cloneTemplateRepo" /\ Len(out.codes) = 2 /\ out.codes[2] # "0"
          \/ out.step = "cloneTemplateRepo" /\ AbsentEssential # {}

C11_Witness ==
    /\ pc = "exited"
    /\ out.step = "cloneTemplateRepo"
    /\ out.codes = <<"0", "1">>
    /\ MsgCloneFailed \in Range(out.echo)

\* C12: for every package.json that parses as a JSON object and for both
\* values of useNuxtUi, after updatePackageJson returns (no file operation
\* having failed) the manifest on disk has its name equal to projectName and
\* its license equal to license.
C12_NameAndLicenseWritten ==
    [][(/\ pc = "updatePackageJson"
        /\ Here.pkg.here /\ Here.pkg.ok
        /\ allOk')
       => /\ fs'[cwd].pkg.name = answers.projectName
          /\ fs'[cwd].pkg.license = answers.license]_vars

\* C13: in every run the steps start in the fixed order Environment Probe,
\* Answer Collector, Repository Fetcher, updateNuxtConfig, updatePackageJson,
\* Version-Control Initializer, Remote Repository Creator, Finalizer; a step
\* starts only when the one before it, with every command it issued, has
\* completed, and no command is outstanding when main returns.
C13_StrictlySequential ==
    LET component ==
            [checkNodeVersion |-> 1, checkSupabaseCLI |-> 1, checkGitHubCLI |-> 1,
             promptUser |-> 2, cloneTemplateRepo |-> 3, updateNuxtConfig |-> 4,
             updatePackageJson |-> 5, initGitRepo |-> 6, createGitHubRepo |-> 7,
             commitAndPush |-> 8, installDependencies |-> 8, openInEditor |-> 8]
    IN /\ \A i \in 1..Len(steps) : steps[i] \in DOMAIN component
       /\ \A i, j \in 1..Len(steps) :
             i < j => /\ steps[i] # steps[j]
                      /\ component[steps[i]] <= component[steps[j]]
       /\ pc \in DOMAIN component =>
             /\ pc \notin Range(steps)
             /\ \A i \in 1..Len(steps) : component[steps[i]] <= component[pc]
       /\ Len(out.codes) = Len(out.cmds)
       /\ pc = "done" => Len(steps) = Cardinality(DOMAIN component)

C13_Witness ==
    /\ pc = "done"
    /\ Len(steps) = Len(AllSteps)
    /\ Len(cmds) >= Len(steps)

\* C14: if answer collection fails, promptUser logs a diagnostic and the
\* process ends with status 1; no clone, file rewrite, git or gh command is
\* issued afterwards in that run.
C14_PromptFailureExits ==
    [][(out.step = "promptUser" /\ answers = NoAnswers) =>
          /\ MsgPromptError \in Range(out.echo)
          /\ pc = "exited"
          /\ exitStatus = "1"
          /\ written = {}
          /\ Range(cmds) \subseteq {"node -v"}
          /\ UNCHANGED <<pc, fs, cwd, cmds, written, steps>>]_vars

C14_Witness ==
    /\ out.step = "promptUser"
    /\ answers = NoAnswers
    /\ pc = "exited"
    /\ steps = <<"checkNodeVersion", "checkSupabaseCLI", "checkGitHubCLI", "promptUser">>

\* C15: checkNodeVersion emits the version remediation messages iff the
\* version `node -v` reports is below 18.0, for every vMAJOR.MINOR.PATCH
\* (v18.0.0 does not warn); a version that meets the floor gives no output.
C15_WarnsIffBelowFloor ==
    (/\ out.step = "checkNodeVersion"
     /\ out.stdout # <<>>
     /\ out.stdout[1].num) =>
        LET v == out.stdout[1]
            below == v.major < 18
        IN /\ below <=> (MsgNodeOops \in Range(out.echo))
           /\ below => Len(out.echo) = 3 /\ out.echo[3] = "nvm use 18.17.1"
           /\ ~below => out.echo = <<>>

C15_Witness ==
    /\ out.step = "checkNodeVersion"
    /\ out.stdout = <<[num |-> TRUE, major |-> 18, minor |-> 0]>>
    /\ out.echo = <<>>
    /\ pc = "checkSupabaseCLI"

\* C16: for all three choices, if reading or parsing nuxt.config.ts or
\* package.json fails while updateNuxtConfig runs, the failure is caught and
\* the other file has, when updateNuxtConfig returns, exactly the content it
\* had when updateNuxtConfig started.
C16_OtherFileUntouched ==
    [][(pc = "updateNuxtConfig" /\ out'.step = "updateNuxtConfig") =>
          /\ out'.failed # <<>> => pc' = "updatePackageJson"
          /\ out'.failed = <<"nuxt.config.ts">> => fs'[cwd].pkg = Here.pkg
          /\ out'.failed = <<"package.json">> => fs'[cwd].nuxt = Here.nuxt]_vars

\* C17: in a run where the fetcher succeeds the working directory changes
\* exactly once, into the cloned project, and every later step (Config
\* Rewriter, manifest update, git init, remote creation, commit/push,
\* install, editor) starts in the project root <start>/<projectName>, for
\* every template, one with a subdirectory named like the project included.
C17_OneChangeOfDirectory ==
    [][/\ cwd' # cwd => (cwd = "start" /\ cwd' = "project")
       /\ pc' \in {"updateNuxtConfig", "updatePackageJson", "initGitRepo",
                   "createGitHubRepo", "commitAndPush", "installDependencies",
                   "openInEditor"}
             => Pwd(cwd', answers.projectName) = "/start/" \o answers.projectName]_vars

\* the positions at which a command was issued in the run
IssuedAt(c) == {i \in 1..Len(cmds) : cmds[i] = c}

\* C18 as stated: in every run that reaches the Finalizer its sub-steps are
\* issued in the order commit/push, editor launch, dependency install.
C18_EditorBeforeInstall ==
    pc \in {"finish", "done"} =>
        /\ \A i \in IssuedAt(CodeDot), j \in IssuedAt(YarnInstall) : i < j
        /\ \A k \in IssuedAt(GitAdd) \cup IssuedAt(GitCommit) \cup IssuedAt(GitPush),
              i \in IssuedAt(CodeDot) : k < i

\* C18, amended: in every run that reaches the Finalizer its sub-steps are
\* issued in the order commit/push (when the auto-commit flag is set),
\* dependency install, editor launch, each once.
C18_InstallBeforeEditor ==
    /\ \A i \in IssuedAt(CodeDot) : \E j \in IssuedAt(YarnInstall) : j < i
    /\ \A k \in IssuedAt(GitAdd) \cup IssuedAt(GitCommit) \cup IssuedAt(GitPush),
          j \in IssuedAt(YarnInstall) : k < j
    /\ pc \in {"finish", "done"} =>
          /\ Cardinality(IssuedAt(YarnInstall)) = 1
          /\ Cardinality(IssuedAt(CodeDot)) = 1
          /\ answers.autoCommitPush <=> (IssuedAt(GitAdd) # {})

C18_Witness ==
    /\ pc = "done"
    /\ answers.autoCommitPush
    /\ {GitPush, YarnInstall, CodeDot} \subseteq Range(cmds)

\* C19: if yarn add -D tailwindcss postcss autoprefixer returns a non-zero
\* status, setupTailwind logs the failure and does none of its remaining
\* steps: it writes none of tailwind.config.js, postcss.config.js,
\* assets/css/tailwind.css or nuxt.config.ts and creates no directory.
C19_FailedInstallSkipsSetup ==
    [][(/\ pc = "updateNuxtConfig"
        /\ answers.uiFramework = "tailwind"
        /\ out'.codes = <<"1">>)
       => LET w == out'.writes IN
          /\ out'.cmds = <<YarnAdd>>
          /\ MsgTwInstallFailed \in Range(out'.echo)
          /\ MsgTwDone \notin Range(out'.echo)
          /\ Range(w) \cap {"tailwind.config.js", "postcss.config.js", "assets/css",
                            "assets/css/tailwind.css"} = {}
          /\ \A i \in 1..Len(w) :
                w[i] = "nuxt.config.ts" => \E j \in 1..(i - 1) : w[j] = "package.json"
          /\ fs'[cwd].tw = Here.tw
          /\ fs'[cwd].postcss = Here.postcss
          /\ fs'[cwd].css = Here.css
          /\ fs'[cwd].cssDir = Here.cssDir
          /\ HasCssRef(fs'[cwd].nuxt.text) <=> HasCssRef(Here.nuxt.text)]_vars

C19_Witness ==
    /\ out.step = "updateNuxtConfig"
    /\ answers.uiFramework = "tailwind"
    /\ out.codes = <<"1">>
    /\ MsgTwInstallFailed \in Range(out.echo)
    /\ Here.css = "absent"

\* C20: after setupTailwind completes with a successful install: if
\* tailwind.config.js existed beforehand, the file written contains no
\* occurrence of '@nuxt/ui' (every reference is stripped); if it did not
\* exist, the default configuration is written.
C20_TailwindConfigStripped ==
    [][(/\ pc = "updateNuxtConfig"
        /\ answers.uiFramework = "tailwind"
        /\ out'.codes = <<"0">>
        /\ MsgTwDone \in Range(out'.echo))
       => /\ "tailwind.config.js" \in Range(out'.writes)
          /\ fs'[cwd].tw.here
          /\ Here.tw.here => ~Includes(fs'[cwd].tw.text, <<AtNuxt, SlashUi>>)
          /\ ~Here.tw.here => fs'[cwd].tw.text = <<TailwindDefault>>]_vars

\* C21: setupTailwind creates postcss.config.js and assets/css/tailwind.css
\* only when absent: an existing one is never overwritten, an absent one is
\* written with the default content, and the directory assets/css is created
\* exactly when the CSS entry file is absent and the directory is absent.
C21_CreatesOnlyWhenAbsent ==
    [][(pc = "updateNuxtConfig" /\ answers.uiFramework = "tailwind") =>
          LET w == Range(out'.writes)
              completed == MsgTwDone \in Range(out'.echo)
          IN /\ Here.postcss # "absent" =>
                   fs'[cwd].postcss = Here.postcss /\ "postcss.config.js" \notin w
             /\ Here.css # "absent" =>
                   fs'[cwd].css = Here.css /\ "assets/css/tailwind.css" \notin w
             /\ (completed /\ Here.postcss = "absent") =>
                   fs'[cwd].postcss = "default" /\ "postcss.config.js" \in w
             /\ (completed /\ Here.css = "absent") =>
                   fs'[cwd].css = "default" /\ "assets/css/tailwind.css" \in w
             /\ completed =>
                   (("assets/css" \in w) <=> (Here.css = "absent" /\ ~Here.cssDir))
             /\ "assets/css" \in w => (Here.css = "absent" /\ ~Here.cssDir)]_vars

C21_Witness ==
    /\ out.step = "updateNuxtConfig"
    /\ answers.uiFramework = "tailwind"
    /\ MsgTwDone \in Range(out.echo)
    /\ "assets/css/tailwind.css" \in Range(out.writes)
    /\ "assets/css" \notin Range(out.writes)

\* C22: with the choice nuxt-ui and both files readable, updateNuxtConfig
\* still writes package.json and nuxt.config.ts back; the nuxt.config.ts
\* written is identical to the one read and the manifest written has the
\* same @nuxt/ui entry, and every other entry, as the manifest read.
C22_KeepsNuxtUiAndWritesBack ==
    [][(/\ pc = "updateNuxtConfig"
        /\ answers.uiFramework = "nuxt-ui"
        /\ Here.nuxt.here
        /\ Here.pkg.here /\ Here.pkg.ok
        /\ allOk')
       => /\ out'.writes = <<"package.json", "nuxt.config.ts">>
          /\ out'.cmds = <<>>
          /\ fs'[cwd].nuxt = Here.nuxt
          /\ fs'[cwd].pkg.here /\ fs'[cwd].pkg.ok
          /\ fs'[cwd].pkg.hasDeps = Here.pkg.hasDeps
          /\ fs'[cwd].pkg.deps = Here.pkg.deps
          /\ fs'[cwd].pkg.dev = Here.pkg.dev
          /\ fs'[cwd].pkg.name = Here.pkg.name
          /\ fs'[cwd].pkg.license = Here.pkg.license]_vars

C22_Witness ==
    /\ out.step = "updateNuxtConfig"
    /\ answers.uiFramework = "nuxt-ui"
    /\ out.writes = <<"package.json", "nuxt.config.ts">>
    /\ NuxtUiDep \in Here.pkg.deps
    /\ MentionsNuxtUi(Here.nuxt.text)

\* C23: when the choice is nuxt-ui or none, no utility-CSS setup action
\* happens in the run: yarn add -D is never issued, tailwind.config.js,
\* postcss.config.js and assets/css/tailwind.css are never written, and no
\* style-sheet inclusion line is added to nuxt.config.ts.
C23_NoTailwindSetupUnlessChosen ==
    [][answers.uiFramework \in {"nuxt-ui", "none"} =>
          /\ YarnAdd \notin Range(cmds')
          /\ written' \cap {"tailwind.config.js", "postcss.config.js", "assets/css",
                              "assets/css/tailwind.css"} = {}
          /\ pc # "cloneTemplateRepo" =>
                \A dir \in DOMAIN fs :
                   /\ fs'[dir].tw = fs[dir].tw
                   /\ fs'[dir].postcss = fs[dir].postcss
                   /\ fs'[dir].css = fs[dir].css
                   /\ fs'[dir].cssDir = fs[dir].cssDir
                   /\ HasCssRef(fs'[dir].nuxt.text) <=> HasCssRef(fs[dir].nuxt.text)]_vars

C23_Witness ==
    /\ pc = "done"
    /\ answers.uiFramework = "none"
    /\ written = {"package.json", "nuxt.config.ts"}
    /\ allOk

\* C24: initGitRepo issues the removal of the inherited .git directory and
\* then git init, each once and in that order; a non-zero status of the
\* removal does not suppress the init, each non-zero status is reported with
\* its own warning, and in every case main() goes on to createGitHubRepo.
C24_RemoveThenInit ==
    [][pc = "initGitRepo" =>
          /\ pc' = "createGitHubRepo"
          /\ exitStatus' = exitStatus
          /\ "throw" \notin Range(out'.codes) =>
                /\ out'.cmds = <<RmGit, GitInit>>
                /\ cmds' = cmds \o <<RmGit, GitInit>>
                /\ (out'.codes[1] # "0") <=> (MsgRmFailed \in Range(out'.echo))
                /\ (out'.codes[2] # "0") <=> (MsgInitFailed \in Range(out'.echo))
                /\ MsgRmFailed # MsgInitFailed]_vars

C24_Witness ==
    /\ out.step = "initGitRepo"
    /\ out.codes = <<"1", "1">>
    /\ out.cmds = <<RmGit, GitInit>>
    /\ pc = "createGitHubRepo"

\* C25: an exception thrown in any step of setupTailwind is reported with
\* the Tailwind-specific error message and is caught by updateNuxtConfig,
\* not inside setupTailwind: after it updateNuxtConfig writes neither
\* package.json nor nuxt.config.ts.
C25_TailwindExceptionEndsRewrite ==
    [][(/\ pc = "updateNuxtConfig"
        /\ answers.uiFramework = "tailwind"
        /\ "Setting up Tailwind CSS..." \in Range(out'.echo)
        /\ MsgTwDone \notin Range(out'.echo)
        /\ MsgTwInstallFailed \notin Range(out'.echo)) =>
          /\ MsgTwError \in Range(out'.echo)
          /\ "package.json" \notin Range(out'.writes)
          /\ "nuxt.config.ts" \notin Range(out'.writes)]_vars

\* C26: the error message updateNuxtConfig logs names the file whose read
\* failed: nuxt.config.ts when reading nuxt.config.ts failed, package.json
\* when reading or parsing package.json failed.
C26_ErrorNamesFailedFile ==
    [][pc = "updateNuxtConfig" =>
          LET Named(msg) == CASE msg = MsgNuxtError -> {"nuxt.config.ts"}
                              [] msg = MsgPkgError -> {"package.json"}
                              [] OTHER -> {}
              named == UNION {Named(out'.echo[i]) : i \in DOMAIN out'.echo}
          IN out'.failed # <<>> => named = Range(out'.failed)]_vars

\* C27: with the choice tailwind, the development dependencies a successful
\* yarn add -D put into package.json are in package.json when
\* updateNuxtConfig returns, and no later step of the run takes them out
\* again: they are still there when the pipeline ends.
C27_DevDepsSurvive ==
    [][/\ (/\ pc = "updateNuxtConfig"
            /\ answers.uiFramework = "tailwind"
            /\ out'.cmds = <<YarnAdd>>
            /\ out'.codes = <<"0">>) =>
              /\ fs'[cwd].pkg.here
              /\ TailwindDevDeps \subseteq fs'[cwd].pkg.dev
       /\ (/\ pc \in DOMAIN LaterSteps \ {"cd", "updateNuxtConfig"}
            /\ TailwindDevDeps \subseteq Here.pkg.dev) =>
              /\ fs'[cwd].pkg.here
              /\ TailwindDevDeps \subseteq fs'[cwd].pkg.dev]_vars

C27_Witness ==
    /\ pc = "done"
    /\ answers.uiFramework = "tailwind"
    /\ YarnAdd \in Range(cmds)
    /\ "package.json" \in written
    /\ Here.pkg.name = answers.projectName
    /\ Here.pkg.fmt = "node"
    /\ TailwindDevDeps \subseteq Here.pkg.dev

\* C28: at the end of every run that reaches normal completion, runs in
\* which updateNuxtConfig or updatePackageJson logged an error included,
\* nuxt.config.ts mentions the @nuxt/ui module if and only if the
\* dependencies of package.json list @nuxt/ui.
C28_FilesAgreeAtCompletion ==
    pc = "done" =>
       (/\ Here.nuxt.here
        /\ MentionsNuxtUi(Here.nuxt.text)) <=>
       (/\ Here.pkg.here
        /\ Here.pkg.ok
        /\ NuxtUiDep \in Here.pkg.deps)

\* C29: initGitRepo logs 'Git repository initialized!' only if git init
\* returned status 0: a run in which git init failed never reports the
\* repository as initialized.
C29_InitializedOnlyAfterInit ==
    (/\ out.step = "initGitRepo"
     /\ MsgGitDone \in Range(out.echo)) =>
        \E i \in DOMAIN out.cmds : out.cmds[i] = GitInit /\ out.codes[i] = "0"

\* C30: with the choice tailwind, whenever updateNuxtConfig has written
\* nuxt.config.ts and package.json with the @nuxt/ui registration and
\* dependency removed, the utility-CSS setup has completed in that run: the
\* install returned 0 and tailwind.config.js, postcss.config.js and the CSS
\* entry file exist.
C30_NeverWithoutUiOption ==
    [][(/\ pc = "updateNuxtConfig"
        /\ answers.uiFramework = "tailwind"
        /\ MentionsNuxtUi(Here.nuxt.text)
        /\ NuxtUiDep \in Here.pkg.deps
        /\ {"nuxt.config.ts", "package.json"} \subseteq Range(out'.writes)
        /\ ~MentionsNuxtUi(fs'[cwd].nuxt.text)
        /\ NuxtUiDep \notin fs'[cwd].pkg.deps) =>
          /\ out'.cmds = <<YarnAdd>>
          /\ out'.codes = <<"0">>
          /\ MsgTwDone \in Range(out'.echo)
          /\ fs'[cwd].tw.here
          /\ fs'[cwd].postcss # "absent"
          /\ fs'[cwd].css # "absent"]_vars

====
